---- MODULE Spec2Model ----
(***************************************************************************)
(* A model of src/app.py (csv-timeline): the timecode parser and           *)
(* formatter, the column resolver, and the upload_csv / export_csv         *)
(* handlers.                                                               *)
(*                                                                         *)
(* Text is a sequence of one-character strings, so that strip, split,      *)
(* lower, the substring test, int() and float() are computed character by  *)
(* character as Python computes them.                                      *)
(*                                                                         *)
(* A number of seconds is an integer count of ticks, TicksPerSecond to the *)
(* second.  A tick is 1/3000 s, the common refinement of one frame at 30   *)
(* fps (100 ticks) and one millisecond (3 ticks), so h*3600+m*60+s+f/30.0  *)
(* and every decimal with at most three fractional digits are exact, and   *)
(* no value lies half way between two milliseconds (the %.3f conversion    *)
(* never meets a tie).  The modelled input alphabet has no exponent, inf   *)
(* or nan spellings of a float.                                            *)
(***************************************************************************)
EXTENDS Integers, Sequences, FiniteSets, TLC

(***************************************************************************)
(* Bounds of the model.                                                    *)
(***************************************************************************)
\* the largest number of colon-separated fields of a generated timecode text
MaxFields == 4
\* the longest chain of calls, each applied to the previous call's result
MaxChain == 3
\* the largest number of data rows of an uploaded CSV file
MaxRows == 2
\* the largest number of columns of an uploaded CSV file whose roles vary
MaxCols == 5

(***************************************************************************)
(* Numbers of the program.                                                 *)
(***************************************************************************)
\* frames / 30.0
FrameRate == 30
\* the three fractional digits of {secs:06.3f}
MillisPerSecond == 1000
TicksPerSecond == 3 * MillisPerSecond
SecondsPerMinute == 60
SecondsPerHour == 3600

VARIABLES
    calls,      \* the current chain of parse_timecode / format_timecode calls
    csv_file,   \* the CSV file the client holds: chosen by the user, or the last export
    request,    \* the file of the last POST /upload-csv
    resolved,   \* upload_csv's column mapping in that request (speaker_col .. source_col)
    response,   \* the response to that request
    exported    \* the last response of POST /export-csv

vars == <<calls, csv_file, request, resolved, response, exported>>

(***************************************************************************)
(* Python's str operations on text.                                        *)
(***************************************************************************)
DigitChars == <<"0", "1", "2", "3", "4", "5", "6", "7", "8", "9">>

UpperChars ==
    <<"A", "B", "C", "D", "E", "F", "G", "H", "I", "J", "K", "L", "M",
      "N", "O", "P", "Q", "R", "S", "T", "U", "V", "W", "X", "Y", "Z">>

LowerChars ==
    <<"a", "b", "c", "d", "e", "f", "g", "h", "i", "j", "k", "l", "m",
      "n", "o", "p", "q", "r", "s", "t", "u", "v", "w", "x", "y", "z">>

Whitespace == {" "}

IsDigit(c) == \E i \in 1..10 : DigitChars[i] = c

DigitVal(c) == (CHOOSE i \in 1..10 : DigitChars[i] = c) - 1

\* str.lower(), one character
LowerChar(c) ==
    IF \E i \in 1..26 : UpperChars[i] = c
    THEN LowerChars[CHOOSE i \in 1..26 : UpperChars[i] = c]
    ELSE c

\* str.lower()
lower(s) == [i \in 1..Len(s) |-> LowerChar(s[i])]

RECURSIVE lstrip(_)
lstrip(s) ==
    IF s # <<>> /\ Head(s) \in Whitespace THEN lstrip(Tail(s)) ELSE s

RECURSIVE rstrip(_)
rstrip(s) ==
    IF s # <<>> /\ s[Len(s)] \in Whitespace
    THEN rstrip(SubSeq(s, 1, Len(s) - 1))
    ELSE s

\* str.strip()
strip(s) == rstrip(lstrip(s))

\* c in s, for a single character c
HasChar(s, c) == \E i \in 1..Len(s) : s[i] = c

\* sub in s: sub occurs in s as a contiguous run
IsSubstring(sub, s) ==
    \E i \in 0..(Len(s) - Len(sub)) : SubSeq(s, i + 1, i + Len(sub)) = sub

\* s.endswith(suffix)
endswith(s, suffix) ==
    /\ Len(suffix) <= Len(s)
    /\ SubSeq(s, Len(s) - Len(suffix) + 1, Len(s)) = suffix

\* s.split(sep), for a single character sep
RECURSIVE split(_, _)
split(s, sep) ==
    IF ~HasChar(s, sep)
    THEN <<s>>
    ELSE LET i == CHOOSE k \in 1..Len(s) :
                      s[k] = sep /\ \A j \in 1..(k - 1) : s[j] # sep
         IN  <<SubSeq(s, 1, i - 1)>> \o split(SubSeq(s, i + 1, Len(s)), sep)

\* sep.join(parts), for a single character sep
RECURSIVE join(_, _)
join(parts, sep) ==
    IF Len(parts) = 0 THEN <<>>
    ELSE IF Len(parts) = 1 THEN parts[1]
    ELSE parts[1] \o <<sep>> \o join(Tail(parts), sep)

(***************************************************************************)
(* Python's int() and float() on text.                                     *)
(***************************************************************************)
\* digit (["_"] digit)* : the digits of an integer literal or of one side of a
\* decimal point
DigitPartOk(d) ==
    /\ d # <<>>
    /\ \A i \in 1..Len(d) : IsDigit(d[i]) \/ d[i] = "_"
    /\ IsDigit(d[1])
    /\ IsDigit(d[Len(d)])
    /\ \A i \in 1..(Len(d) - 1) : ~(d[i] = "_" /\ d[i + 1] = "_")

RECURSIVE DigitPartVal(_)
DigitPartVal(d) ==
    IF d = <<>> THEN 0
    ELSE IF d[Len(d)] = "_" THEN DigitPartVal(SubSeq(d, 1, Len(d) - 1))
    ELSE 10 * DigitPartVal(SubSeq(d, 1, Len(d) - 1)) + DigitVal(d[Len(d)])

\* the number of digits of a digit part
DigitCount(d) == Cardinality({i \in 1..Len(d) : IsDigit(d[i])})

RECURSIVE Pow10(_)
Pow10(n) == IF n = 0 THEN 1 ELSE 10 * Pow10(n - 1)

IsSign(c) == c = "-" \/ c = "+"

\* the text after an optional sign
Unsigned(t) == IF t # <<>> /\ IsSign(t[1]) THEN Tail(t) ELSE t

SignOf(t) == IF t # <<>> /\ t[1] = "-" THEN -1 ELSE 1

\* int(x) does not raise ValueError
IntOk(x) == DigitPartOk(Unsigned(strip(x)))

\* int(x), where IntOk(x)
IntVal(x) == SignOf(strip(x)) * DigitPartVal(Unsigned(strip(x)))

\* float(x) does not raise ValueError
FloatOk(x) ==
    LET body == Unsigned(strip(x))
    IN  IF HasChar(body, ".")
        THEN LET p == split(body, ".")
             IN  /\ Len(p) = 2
                 /\ p[1] = <<>> \/ DigitPartOk(p[1])
                 /\ p[2] = <<>> \/ DigitPartOk(p[2])
                 /\ p[1] # <<>> \/ p[2] # <<>>
        ELSE DigitPartOk(body)

\* float(x) in ticks, where FloatOk(x); exact for up to three fractional digits
FloatVal(x) ==
    LET t == strip(x)
        body == Unsigned(t)
        p == split(body, ".")
        whole == DigitPartVal(p[1])
        frac == IF Len(p) = 2 THEN p[2] ELSE <<>>
    IN  SignOf(t) * (whole * TicksPerSecond
                     + (DigitPartVal(frac) * TicksPerSecond) \div Pow10(DigitCount(frac)))

(***************************************************************************)
(* parse_timecode                                                          *)
(***************************************************************************)
\* frames // 30: the frames floored to whole seconds
FramesToTicksFloored(frames) == (frames \div FrameRate) * TicksPerSecond

\* frames / 30.0, in ticks
FramesToTicks(frames) == (frames * TicksPerSecond) \div FrameRate

\* the branches of parse_timecode that end in `return 0`
ParseFails(time_str) ==
    LET s == strip(time_str)
        parts == split(s, ":")
    IN  IF HasChar(s, ":")
        THEN IF Len(parts) = 4 \/ Len(parts) = 3
             THEN \E i \in 1..Len(parts) : ~IntOk(parts[i])
             ELSE TRUE
        ELSE ~FloatOk(s)

parse_timecode(time_str) ==
    LET s == strip(time_str)
        parts == split(s, ":")
    IN  IF ParseFails(time_str) THEN 0
        ELSE IF HasChar(s, ":")
        THEN IF Len(parts) = 4
             THEN IntVal(parts[1]) * SecondsPerHour * TicksPerSecond
                  + IntVal(parts[2]) * SecondsPerMinute * TicksPerSecond
                  + IntVal(parts[3]) * TicksPerSecond
                  + FramesToTicks(IntVal(parts[4]))
             ELSE IntVal(parts[1]) * SecondsPerHour * TicksPerSecond
                  + IntVal(parts[2]) * SecondsPerMinute * TicksPerSecond
                  + IntVal(parts[3]) * TicksPerSecond
        ELSE FloatVal(s)

(***************************************************************************)
(* format_timecode                                                         *)
(***************************************************************************)
\* str(n) for n >= 0
RECURSIVE DigitsOf(_)
DigitsOf(n) ==
    IF n < 10 THEN <<DigitChars[n + 1]>>
    ELSE DigitsOf(n \div 10) \o <<DigitChars[(n % 10) + 1]>>

\* zero padding on the left to at least `width` characters
RECURSIVE ZeroPad(_, _)
ZeroPad(s, width) == IF Len(s) >= width THEN s ELSE ZeroPad(<<"0">> \o s, width)

\* {n:02d}
FormatInt02(n) ==
    IF n < 0 THEN <<"-">> \o ZeroPad(DigitsOf(-n), 1)
    ELSE ZeroPad(DigitsOf(n), 2)

\* the nearest millisecond of a count of ticks >= 0, ties to even
RoundMillis(ticks) ==
    LET scaled == ticks * MillisPerSecond
        q == scaled \div TicksPerSecond
        r == scaled % TicksPerSecond
    IN  IF 2 * r > TicksPerSecond THEN q + 1
        ELSE IF 2 * r < TicksPerSecond THEN q
        ELSE IF q % 2 = 0 THEN q ELSE q + 1

\* {secs:06.3f} for secs >= 0
FormatSecs(ticks) ==
    LET ms == RoundMillis(ticks)
    IN  ZeroPad(DigitsOf(ms \div MillisPerSecond) \o <<".">>
                \o ZeroPad(DigitsOf(ms % MillisPerSecond), 3), 6)

format_timecode(seconds) ==
    LET hours == seconds \div (SecondsPerHour * TicksPerSecond)
        minutes == (seconds % (SecondsPerHour * TicksPerSecond))
                       \div (SecondsPerMinute * TicksPerSecond)
        secs == seconds % (SecondsPerMinute * TicksPerSecond)
    IN  FormatInt02(hours) \o <<":">> \o FormatInt02(minutes) \o <<":">> \o FormatSecs(secs)

(***************************************************************************)
(* Timecode texts and seconds values the pure functions are applied to.    *)
(***************************************************************************)
\* colon-free fields that int() accepts, with the integer each one spells
IntFields ==
    { [text |-> <<"0">>, int |-> TRUE, num |-> TRUE, val |-> 0],
      [text |-> <<"1">>, int |-> TRUE, num |-> TRUE, val |-> 1],
      [text |-> <<"5", "9">>, int |-> TRUE, num |-> TRUE, val |-> 59],
      [text |-> <<"-", "1">>, int |-> TRUE, num |-> TRUE, val |-> -1],
      [text |-> <<" ", "2">>, int |-> TRUE, num |-> TRUE, val |-> 2] }

\* colon-free fields that int() rejects; num: float() accepts the field
OtherFields ==
    { [text |-> <<>>, int |-> FALSE, num |-> FALSE, val |-> 0],
      [text |-> <<"x">>, int |-> FALSE, num |-> FALSE, val |-> 0],
      [text |-> <<"1", ".", "5">>, int |-> FALSE, num |-> TRUE, val |-> 0] }

Fields == IntFields \cup OtherFields

FieldSeqs == UNION {[1..n -> Fields] : n \in 1..MaxFields}

\* the text whose colon-separated fields are fs
TextOf(fs) == join([i \in 1..Len(fs) |-> fs[i].text], ":")

HourSamples == {0, 1, 100}
MinuteSamples == {0, 1, 59}
SecondSamples == {0, 1, 59}
\* parts of a second, in ticks: whole milliseconds, and values that round down and up
TickSamples == {0, 1, 2, 1500, 2998, 2999}

SecondsValues ==
    { ((h * SecondsPerHour + m * SecondsPerMinute + s) * TicksPerSecond) + t :
        h \in HourSamples, m \in MinuteSamples, s \in SecondSamples, t \in TickSamples }

ParseCall(text, fs) ==
    [fn |-> "parse_timecode", text |-> text, secs |-> parse_timecode(text), fields |-> fs]

FormatCall(seconds) ==
    [fn |-> "format_timecode", text |-> format_timecode(seconds), secs |-> seconds,
     fields |-> <<>>]

LastCall == calls[Len(calls)]

UploadVars == <<csv_file, request, resolved, response, exported>>

\* parse_timecode applied to a text: a chain of calls begins
ParseTimecode ==
    /\ calls = <<>>
    /\ \E fs \in FieldSeqs : calls' = <<ParseCall(TextOf(fs), fs)>>
    /\ UNCHANGED UploadVars

\* format_timecode applied to a number of seconds >= 0: a chain of calls begins
FormatTimecode ==
    /\ calls = <<>>
    /\ \E v \in SecondsValues : calls' = <<FormatCall(v)>>
    /\ UNCHANGED UploadVars

\* parse_timecode applied to the text format_timecode returned
ParseFormatted ==
    /\ calls # <<>>
    /\ Len(calls) < MaxChain
    /\ LastCall.fn = "format_timecode"
    /\ calls' = Append(calls, ParseCall(LastCall.text, <<>>))
    /\ UNCHANGED UploadVars

\* format_timecode applied to the seconds parse_timecode returned, when they are >= 0
FormatParsed ==
    /\ calls # <<>>
    /\ Len(calls) < MaxChain
    /\ LastCall.fn = "parse_timecode"
    /\ LastCall.secs >= 0
    /\ calls' = Append(calls, FormatCall(LastCall.secs))
    /\ UNCHANGED UploadVars

NextTimecode == ParseTimecode \/ FormatTimecode \/ ParseFormatted \/ FormatParsed

(***************************************************************************)
(* The column resolver.                                                    *)
(***************************************************************************)
\* the absent value of a column (None); like the empty text, it is falsy
NoColumn == <<>>

normalize_column_name(column_name) == strip(lower(column_name))

SpeakerNames == {<<"s", "p", "e", "a", "k", "e", "r">>}

StartTimeNames ==
    { <<"s", "t", "a", "r", "t", "_", "t", "i", "m", "e">>,
      <<"s", "t", "a", "r", "t", "t", "i", "m", "e">>,
      <<"s", "t", "a", "r", "t", " ", "t", "i", "m", "e">> }

EndTimeNames ==
    { <<"e", "n", "d", "_", "t", "i", "m", "e">>,
      <<"e", "n", "d", "t", "i", "m", "e">>,
      <<"e", "n", "d", " ", "t", "i", "m", "e">> }

source_keywords ==
    << <<"s", "c", "r", "i", "p", "t">>,
       <<"l", "i", "n", "e">>,
       <<"t", "e", "x", "t">>,
       <<"t", "r", "a", "n", "s", "c", "r", "i", "p", "t", "i", "o", "n">> >>

\* any(keyword in normalized_col for keyword in source_keywords)
HasSourceKeyword(col) ==
    \E k \in 1..Len(source_keywords) :
        IsSubstring(source_keywords[k], normalize_column_name(col))

\* the search with the loops exchanged: the first keyword that some column
\* contains decides, and the first column containing it is returned
RECURSIVE FirstColumnWith(_, _)
FirstColumnWith(columns, keyword) ==
    IF columns = <<>> THEN NoColumn
    ELSE IF IsSubstring(keyword, normalize_column_name(Head(columns))) THEN Head(columns)
    ELSE FirstColumnWith(Tail(columns), keyword)

find_source_column_by_keyword(columns) ==
    IF \A k \in 1..Len(source_keywords) :
           FirstColumnWith(columns, source_keywords[k]) = NoColumn
    THEN NoColumn
    ELSE FirstColumnWith(columns,
             source_keywords[CHOOSE k \in 1..Len(source_keywords) :
                 /\ FirstColumnWith(columns, source_keywords[k]) # NoColumn
                 /\ \A j \in 1..(k - 1) :
                        FirstColumnWith(columns, source_keywords[j]) = NoColumn])

\* for col in df.columns: ... return col; return None
RECURSIVE find_source_column(_)
find_source_column(columns) ==
    IF columns = <<>> THEN NoColumn
    ELSE IF HasSourceKeyword(Head(columns)) THEN Head(columns)
    ELSE find_source_column(Tail(columns))

\* the loop of upload_csv over df.columns for one role: every column whose
\* normalized name is one of `names` is assigned in turn, so the last one stays
RECURSIVE FindNamedColumn(_, _)
FindNamedColumn(columns, names) ==
    IF columns = <<>> THEN NoColumn
    ELSE IF normalize_column_name(columns[Len(columns)]) \in names
    THEN columns[Len(columns)]
    ELSE FindNamedColumn(SubSeq(columns, 1, Len(columns) - 1), names)

\* df.columns = [col.strip() for col in df.columns]
StripColumns(columns) == [i \in 1..Len(columns) |-> strip(columns[i])]

ResolveColumns(columns) ==
    [speaker_col |-> FindNamedColumn(columns, SpeakerNames),
     start_time_col |-> FindNamedColumn(columns, StartTimeNames),
     end_time_col |-> FindNamedColumn(columns, EndTimeNames),
     source_col |-> find_source_column(columns)]

\* not col
Unresolved(col) == col = NoColumn

\* missing_cols built by an if/elif chain: only the first missing role is named
MissingColsFirstOnly(m) ==
    IF Unresolved(m.speaker_col) THEN <<"speaker">>
    ELSE IF Unresolved(m.start_time_col) THEN <<"start_time">>
    ELSE IF Unresolved(m.end_time_col) THEN <<"end_time">>
    ELSE IF Unresolved(m.source_col)
    THEN <<"source (script/line/text/transcription)">>
    ELSE <<>>

\* missing_cols, in the order of its appends
MissingCols(m) ==
    (IF Unresolved(m.speaker_col) THEN <<"speaker">> ELSE <<>>)
    \o (IF Unresolved(m.start_time_col) THEN <<"start_time">> ELSE <<>>)
    \o (IF Unresolved(m.end_time_col) THEN <<"end_time">> ELSE <<>>)
    \o (IF Unresolved(m.source_col)
        THEN <<"source (script/line/text/transcription)">> ELSE <<>>)

(***************************************************************************)
(* The segment builder.                                                    *)
(***************************************************************************)
\* row[col]: the cell of a row under the column named col
CellAt(columns, row, col) == row[CHOOSE j \in 1..Len(columns) : columns[j] = col]

\* the guard with >= in place of >
RetainedOrEmpty(start_time, end_time) == start_time >= 0 /\ end_time >= start_time

\* if start_time >= 0 and end_time > start_time
Retained(start_time, end_time) == start_time >= 0 /\ end_time > start_time

\* the id renumbered: the position among the retained segments
SegmentIdRenumbered(index, kept) == kept

\* the id of the segment of the row at position `index`, `kept` segments already built
SegmentId(index, kept) == index

\* the dict appended for one row
Segment(index, kept, speaker, start_time, end_time, text) ==
    [id |-> SegmentId(index, kept),
     speaker |-> speaker,
     start_time |-> start_time,
     end_time |-> end_time,
     start_time_formatted |-> format_timecode(start_time),
     end_time_formatted |-> format_timecode(end_time),
     text |-> text,
     duration |-> end_time - start_time]

\* for index, row in df.iterrows(): ... segments.append(...), from row `index` on
\* (positions count from 0), `segments` built so far
RECURSIVE BuildSegments(_, _, _, _, _)
BuildSegments(columns, rows, m, index, segments) ==
    IF index >= Len(rows) THEN segments
    ELSE LET row == rows[index + 1]
             start_time == parse_timecode(CellAt(columns, row, m.start_time_col))
             end_time == parse_timecode(CellAt(columns, row, m.end_time_col))
             speaker == CellAt(columns, row, m.speaker_col)
             text == CellAt(columns, row, m.source_col)
         IN  BuildSegments(columns, rows, m, index + 1,
                 IF Retained(start_time, end_time)
                 THEN Append(segments,
                          Segment(index, Len(segments), speaker, start_time, end_time, text))
                 ELSE segments)

\* the order of an unstable sort: equal keys change places
SortsAfterStrictly(a, b) == a.start_time > b.start_time

\* whether segment a is placed after segment b by the sort
SortsAfter(a, b) == a.start_time >= b.start_time

\* one segment put into a sorted list, behind every segment it does not precede
RECURSIVE InsertSorted(_, _)
InsertSorted(sorted, seg) ==
    IF sorted = <<>> THEN <<seg>>
    ELSE IF SortsAfter(seg, sorted[Len(sorted)]) THEN Append(sorted, seg)
    ELSE Append(InsertSorted(SubSeq(sorted, 1, Len(sorted) - 1), seg), sorted[Len(sorted)])

\* segments.sort(key=lambda x: x['start_time']): a stable sort
RECURSIVE SortSegments(_)
SortSegments(segments) ==
    IF segments = <<>> THEN <<>>
    ELSE InsertSorted(SortSegments(SubSeq(segments, 1, Len(segments) - 1)),
                      segments[Len(segments)])

\* max([seg['end_time'] for seg in segments]) if segments else 0
TotalDuration(segments) ==
    IF segments = <<>> THEN 0
    ELSE CHOOSE e \in {segments[i].end_time : i \in 1..Len(segments)} :
             \A i \in 1..Len(segments) : segments[i].end_time <= e

(***************************************************************************)
(* upload_csv and export_csv                                               *)
(***************************************************************************)
NoMapping ==
    [speaker_col |-> NoColumn, start_time_col |-> NoColumn,
     end_time_col |-> NoColumn, source_col |-> NoColumn]

NoSegments == <<>>

NoResponse ==
    [status |-> 0, error |-> "", missing_cols |-> <<>>,
     segments |-> NoSegments, speakers |-> {}, total_duration |-> 0]

ErrorResponse(message, missing) ==
    [status |-> 400, error |-> message, missing_cols |-> missing,
     segments |-> NoSegments, speakers |-> {}, total_duration |-> 0]

OkResponse(segments) ==
    [status |-> 200, error |-> "", missing_cols |-> <<>>,
     segments |-> segments,
     speakers |-> {segments[i].speaker : i \in 1..Len(segments)},
     total_duration |-> TotalDuration(segments)]

CsvSuffix == <<".", "c", "s", "v">>

\* the checks of upload_csv before the file is read
FileRejected(file) ==
    \/ ~file.present
    \/ file.filename = <<>>
    \/ ~endswith(lower(file.filename), CsvSuffix)

\* the column mapping upload_csv computes, when it reads the file
upload_csv_columns(file) ==
    IF FileRejected(file) THEN NoMapping
    ELSE ResolveColumns(StripColumns(file.columns))

upload_csv(file) ==
    IF ~file.present THEN ErrorResponse("No CSV file provided", <<>>)
    ELSE IF file.filename = <<>> THEN ErrorResponse("No file selected", <<>>)
    ELSE IF ~endswith(lower(file.filename), CsvSuffix)
    THEN ErrorResponse("Please upload a CSV file. Only .csv files are allowed.", <<>>)
    ELSE LET columns == StripColumns(file.columns)
             m == ResolveColumns(columns)
         IN  IF MissingCols(m) # <<>>
             THEN ErrorResponse("Missing required columns", MissingCols(m))
             ELSE OkResponse(SortSegments(BuildSegments(columns, file.rows, m, 0, <<>>)))

ExportColumns ==
    << <<"s", "p", "e", "a", "k", "e", "r">>,
       <<"s", "t", "a", "r", "t", "_", "t", "i", "m", "e">>,
       <<"e", "n", "d", "_", "t", "i", "m", "e">>,
       <<"t", "r", "a", "n", "s", "c", "r", "i", "p", "t", "i", "o", "n">> >>

\* download_name='script_timeline.csv'
ExportName ==
    <<"s", "c", "r", "i", "p", "t", "_", "t", "i", "m", "e", "l", "i", "n", "e",
      ".", "c", "s", "v">>

\* row_data of one segment, in the order of ExportColumns
ExportRow(segment) ==
    <<segment.speaker, segment.start_time_formatted, segment.end_time_formatted,
      segment.text>>

NoCsvFile == [present |-> FALSE, filename |-> <<>>, columns |-> <<>>, rows |-> <<>>]

NoExport == [status |-> 0, error |-> "", file |-> NoCsvFile]

\* the segments carry no voice_id (upload_csv sets none), so the file has the
\* four columns of row_data whatever include_voices is
export_csv(segments) ==
    IF segments = <<>>
    THEN [status |-> 400, error |-> "No segments to export", file |-> NoCsvFile]
    ELSE [status |-> 200, error |-> "",
          file |-> [present |-> TRUE, filename |-> ExportName, columns |-> ExportColumns,
                    rows |-> [i \in 1..Len(segments) |-> ExportRow(segments[i])]]]

(***************************************************************************)
(* The CSV files a client uploads.                                         *)
(***************************************************************************)
SpeakerHeader == <<" ", "S", "p", "e", "a", "k", "e", "r", " ">>
StartHeader == <<"s", "t", "a", "r", "t", "_", "t", "i", "m", "e">>
EndHeader == <<"E", "n", "d", " ", "T", "i", "m", "e">>
LinesHeader == <<"L", "i", "n", "e", "s">>
TranscriptionHeader ==
    <<"T", "r", "a", "n", "s", "c", "r", "i", "p", "t", "i", "o", "n">>
IdHeader == <<"i", "d">>

Headers ==
    {SpeakerHeader, StartHeader, EndHeader, LinesHeader, TranscriptionHeader, IdHeader}

\* the header rows: up to MaxCols columns, no header twice
ColumnSeqs ==
    UNION { {c \in [1..n -> Headers] : \A i, j \in 1..n : c[i] = c[j] => i = j} :
            n \in 1..MaxCols }

FullColumns == <<SpeakerHeader, StartHeader, EndHeader, LinesHeader>>

Filenames ==
    { <<>>,
      <<"a", ".", "c", "s", "v">>,
      <<"A", ".", "C", "S", "V">>,
      <<"a", ".", "t", "x", "t">> }

CsvName == <<"a", ".", "c", "s", "v">>

Speakers == {<<"A">>, <<"B">>}

\* the texts of the time cells: 1.5 s in frames, 2 s, an unparseable text, -1 s
TimeCells ==
    { <<"0", ":", "0", ":", "1", ":", "1", "5">>,
      <<"0", ":", "0", ":", "2">>,
      <<"x">>,
      <<"-", "1">> }

GoodRow ==
    [speaker |-> <<"A">>,
     start |-> <<"0", ":", "0", ":", "1", ":", "1", "5">>,
     end |-> <<"0", ":", "0", ":", "2">>]

\* the rows: speaker A with every pair of time cells, and the good row of speaker B
RowData ==
    [speaker : {<<"A">>}, start : TimeCells, end : TimeCells]
    \cup {[GoodRow EXCEPT !.speaker = b] : b \in Speakers}

\* the cell of row d under header h; a column of no time or speaker role holds
\* its own header as text
TableCell(h, d) ==
    IF h = SpeakerHeader THEN d.speaker
    ELSE IF h = StartHeader THEN d.start
    ELSE IF h = EndHeader THEN d.end
    ELSE h

CsvFile(filename, columns, data) ==
    [present |-> TRUE, filename |-> filename, columns |-> columns,
     rows |-> [i \in 1..Len(data) |->
                  [j \in 1..Len(columns) |-> TableCell(columns[j], data[i])]]]

FilenameCases ==
    {NoCsvFile} \cup {CsvFile(f, FullColumns, <<GoodRow>>) : f \in Filenames}

ColumnCases == {CsvFile(CsvName, c, <<GoodRow>>) : c \in ColumnSeqs}

RowCases ==
    UNION { {CsvFile(CsvName, FullColumns, d) : d \in [1..n -> RowData]} : n \in 0..MaxRows }

CsvFiles == FilenameCases \cup ColumnCases \cup RowCases

(***************************************************************************)
(* The state machine.                                                      *)
(***************************************************************************)
Init ==
    /\ calls = <<>>
    /\ csv_file \in CsvFiles
    /\ request = NoCsvFile
    /\ resolved = NoMapping
    /\ response = NoResponse
    /\ exported = NoExport

\* POST /upload-csv with the file the client holds
UploadCsv ==
    /\ request' = csv_file
    /\ resolved' = upload_csv_columns(csv_file)
    /\ response' = upload_csv(csv_file)
    /\ UNCHANGED <<calls, csv_file, exported>>

\* POST /export-csv with the segments of the last upload; the client keeps the
\* file it is sent
ExportCsv ==
    /\ exported' = export_csv(response.segments)
    /\ csv_file' = IF exported'.status = 200 THEN exported'.file ELSE csv_file
    /\ UNCHANGED <<calls, request, resolved, response>>

NextUpload == UploadCsv \/ ExportCsv

Next == NextTimecode \/ NextUpload

Spec == Init /\ [][Next]_vars

\* the two handlers alone
SpecUpload == Init /\ [][NextUpload]_vars

\* the two pure functions alone, no file chosen
InitTimecode == Init /\ csv_file = NoCsvFile

SpecTimecode == InitTimecode /\ [][NextTimecode]_vars

(***************************************************************************)
(* Properties of parse_timecode and format_timecode (SpecTimecode).        *)
(***************************************************************************)
IsParse(i) == calls[i].fn = "parse_timecode"

IsFormat(i) == calls[i].fn = "format_timecode"

AllInt(fs) == \A k \in 1..Len(fs) : fs[k].int

\* the text built from fields fs is no timecode of any accepted form
Malformed(fs) ==
    IF Len(fs) = 1 THEN ~fs[1].num
    ELSE ~((Len(fs) = 3 \/ Len(fs) = 4) /\ AllInt(fs))

AbsDiff(a, b) == IF a >= b THEN a - b ELSE b - a

\* 0.001 s and 1/30 s in ticks
TicksPerMilli == TicksPerSecond \div 1000
TicksPer30th == TicksPerSecond \div 30

\* C1: parse_timecode returns a number >= 0 for every text, also one with a
\* leading minus sign in a colon form or in the decimal form, and 0 for
\* malformed text.
C1_ParseNonNegative ==
    \A i \in 1..Len(calls) :
        IsParse(i) =>
            /\ calls[i].secs >= 0
            /\ (calls[i].fields # <<>> /\ Malformed(calls[i].fields)) => calls[i].secs = 0

\* C2: parse_timecode(format_timecode(v)) differs from v by at most 0.001 s,
\* for every v >= 0.
C2_RoundTrip ==
    \A i \in 1..(Len(calls) - 1) :
        (IsFormat(i) /\ IsParse(i + 1) /\ calls[i].secs >= 0) =>
            AbsDiff(calls[i + 1].secs, calls[i].secs) <= TicksPerMilli

IsDigits(t) == \A k \in 1..Len(t) : IsDigit(t[k])

\* the milliseconds a seconds field SS.mmm denotes
FieldMillis(t) == DigitPartVal(SubSeq(t, 1, 2)) * 1000 + DigitPartVal(SubSeq(t, 4, 6))

\* C10: format_timecode(v), v >= 0, is HH:MM:SS.mmm with minutes in 00..59, a
\* seconds field of two digits, a point and three digits that is below 60,
\* and hours*3600 + minutes*60 + seconds field equal to v rounded to the
\* nearest millisecond.
C10_WellFormed ==
    \A i \in 1..Len(calls) :
        (IsFormat(i) /\ calls[i].secs >= 0) =>
            LET p == split(calls[i].text, ":")
            IN  /\ Len(p) = 3
                /\ Len(p[1]) >= 2 /\ IsDigits(p[1])
                /\ Len(p[2]) = 2 /\ IsDigits(p[2]) /\ DigitPartVal(p[2]) <= 59
                /\ Len(p[3]) = 6 /\ p[3][3] = "."
                /\ IsDigits(SubSeq(p[3], 1, 2)) /\ IsDigits(SubSeq(p[3], 4, 6))
                /\ FieldMillis(p[3]) < 60 * 1000
                /\ 2 * AbsDiff(((DigitPartVal(p[1]) * 3600 + DigitPartVal(p[2]) * 60) * 1000
                                + FieldMillis(p[3])) * TicksPerMilli,
                               calls[i].secs) <= TicksPerMilli

(***************************************************************************)
(* Properties of upload_csv (SpecUpload).                                  *)
(***************************************************************************)
\* upload_csv read the file of the last request
FileRead == request.present /\ ~FileRejected(request)

RequestColumns == StripColumns(request.columns)

\* the cell of the request's i-th data row under column col
RequestCell(i, col) == CellAt(RequestColumns, request.rows[i], col)

RowStart(i) == parse_timecode(RequestCell(i, resolved.start_time_col))

RowEnd(i) == parse_timecode(RequestCell(i, resolved.end_time_col))

Segments == response.segments

\* the request's i-th data row passes start_time >= 0 and end_time > start_time
RowKept(i) == RowStart(i) >= 0 /\ RowEnd(i) > RowStart(i)

\* the segment list holds a segment made from the request's i-th data row
HasSegmentOf(i) == \E k \in 1..Len(Segments) : Segments[k].id = i - 1

\* C3: a row whose start or end text fails to parse is not in the segments
\* upload_csv returns, and the response is no error because of it.
C3_UnparseableDropped ==
    (FileRead /\ MissingCols(resolved) = <<>>) =>
        /\ response.status = 200
        /\ \A i \in 1..Len(request.rows) :
               (\/ ParseFails(RequestCell(i, resolved.start_time_col))
                \/ ParseFails(RequestCell(i, resolved.end_time_col)))
                   => ~HasSegmentOf(i)

\* C4: every segment upload_csv returns has start_time >= 0 and end_time >
\* start_time, so duration > 0; a row with parsed end_time <= start_time or
\* negative start_time is in no segment, and every other row is in one, also
\* behind a row that was dropped.
C4_SegmentsValid ==
    response.status = 200 =>
        /\ \A k \in 1..Len(Segments) :
               /\ Segments[k].start_time >= 0
               /\ Segments[k].end_time > Segments[k].start_time
               /\ Segments[k].duration > 0
        /\ \A i \in 1..Len(request.rows) :
               IF RowEnd(i) <= RowStart(i) \/ RowStart(i) < 0
               THEN ~HasSegmentOf(i)
               ELSE HasSegmentOf(i)

\* a first row with end_time before start_time was dropped and the second
\* row behind it was retained
C4_Witness ==
    /\ response.status = 200
    /\ Len(request.rows) = 2
    /\ RowStart(1) > 0 /\ RowEnd(1) > 0 /\ RowEnd(1) < RowStart(1)
    /\ ~HasSegmentOf(1)
    /\ HasSegmentOf(2)

\* C5: the segments upload_csv returns are in ascending order of start_time,
\* segments of equal start_time in the order of their rows, and they are
\* exactly the retained rows, each once.
C5_SortedStable ==
    response.status = 200 =>
        /\ \A a, b \in 1..Len(Segments) :
               a < b =>
                   /\ Segments[a].start_time <= Segments[b].start_time
                   /\ Segments[a].start_time = Segments[b].start_time
                          => Segments[a].id < Segments[b].id
        /\ \A a, b \in 1..Len(Segments) : Segments[a].id = Segments[b].id => a = b
        /\ {Segments[k].id + 1 : k \in 1..Len(Segments)}
               = {i \in 1..Len(request.rows) : RowKept(i)}

\* two retained rows have the same start_time
C5_Witness ==
    /\ response.status = 200
    /\ Len(Segments) = 2
    /\ Segments[1].start_time = Segments[2].start_time
    /\ Segments[1].end_time # Segments[2].end_time

\* the logical roles a header text of the uploaded files stands for
SpeakerHeaders == {strip(SpeakerHeader), ExportColumns[1]}
StartHeaders == {StartHeader, ExportColumns[2]}
EndHeaders == {EndHeader, ExportColumns[3]}
SourceHeaders == {LinesHeader, TranscriptionHeader, ExportColumns[4]}

HasHeaderIn(hs) == \E j \in 1..Len(RequestColumns) : RequestColumns[j] \in hs

\* the names in the error of the roles no header of the request stands for
MissingRoles ==
    (IF HasHeaderIn(SpeakerHeaders) THEN {} ELSE {"speaker"})
    \cup (IF HasHeaderIn(StartHeaders) THEN {} ELSE {"start_time"})
    \cup (IF HasHeaderIn(EndHeaders) THEN {} ELSE {"end_time"})
    \cup (IF HasHeaderIn(SourceHeaders) THEN {}
          ELSE {"source (script/line/text/transcription)"})

\* C6: when a role is resolved by no header, upload_csv returns the error
\* naming every unresolved role and no resolved one, and no segments; when
\* all four resolve it returns no missing-column error.
C6_MissingRolesNamed ==
    FileRead =>
        IF MissingRoles # {}
        THEN /\ response.status = 400
             /\ response.error = "Missing required columns"
             /\ {response.missing_cols[k] : k \in 1..Len(response.missing_cols)}
                    = MissingRoles
             /\ Len(response.missing_cols) = Cardinality(MissingRoles)
             /\ response.segments = <<>>
        ELSE /\ response.error # "Missing required columns"
             /\ response.missing_cols = <<>>

\* the error names two of the roles, the two others being resolved
C6_Witness ==
    /\ FileRead
    /\ response.status = 400
    /\ response.missing_cols = <<"speaker", "end_time">>
    /\ Len(RequestColumns) = 3

\* the positions of the headers that contain a source keyword
SourcePositions == {j \in 1..Len(RequestColumns) : RequestColumns[j] \in SourceHeaders}

\* C7: source-column resolution returns the first header, in column order,
\* that contains one of script, line, text, transcription, whatever the
\* keyword, and no column when no header contains one.
C7_FirstSourceColumn ==
    FileRead =>
        IF SourcePositions = {}
        THEN resolved.source_col = NoColumn
        ELSE resolved.source_col
                 = RequestColumns[CHOOSE j \in SourcePositions :
                                      \A k \in SourcePositions : j <= k]

\* headers [id, Lines, Transcription] resolve to Lines
C7_Witness ==
    /\ FileRead
    /\ RequestColumns = <<IdHeader, LinesHeader, TranscriptionHeader>>
    /\ resolved.source_col = LinesHeader

\* C9: the id of a segment is the position of its row in the file, counted
\* from 0: the segment's fields are those of that row, no two segments have
\* one id, and the position of a dropped row is no segment's id.
C9_IdsArePositions ==
    response.status = 200 =>
        /\ \A k \in 1..Len(Segments) :
               LET i == Segments[k].id + 1
               IN  /\ i \in 1..Len(request.rows)
                   /\ Segments[k].speaker = RequestCell(i, resolved.speaker_col)
                   /\ Segments[k].text = RequestCell(i, resolved.source_col)
                   /\ Segments[k].start_time = RowStart(i)
                   /\ Segments[k].end_time = RowEnd(i)
        /\ \A a, b \in 1..Len(Segments) : a # b => Segments[a].id # Segments[b].id
        /\ \A i \in 1..Len(request.rows) :
               ~RowKept(i) => ~HasSegmentOf(i)

\* the first row was dropped and the one segment has the id of the second row
C9_Witness ==
    /\ response.status = 200
    /\ Len(request.rows) = 2
    /\ Len(Segments) = 1
    /\ Segments[1].id = 1

====
